---- MODULE Spec2Model ----
(***************************************************************************)
(* A model of translate_json_with_deepl.py: the placeholder codec, the     *)
(* recursive translate_dict walk with its retry and backoff loop, the      *)
(* indentation sniffer and the directory run translate_json_directory.     *)
(*                                                                         *)
(* A Python str is a sequence of one-character strings.  A JSON value is   *)
(* a record [t, k, v, s]: t is "dict", "list", "str" or "other" (number,   *)
(* boolean, null), k the keys of a dict in order, v the children of a      *)
(* dict or a list in order, s the characters of a str.                     *)
(***************************************************************************)
EXTENDS Integers, Sequences, FiniteSets, TLC

\* ------------------------------------------------------------------ bounds

\* Longest text given to the placeholder codec.
MaxLen == 8
\* Longest raw file given to get_json_indentation.
MaxFileLen == 5
\* Most nodes of a JSON value given to translate_dict.
MaxNodes == 3
\* Largest billed_characters a remote call reports.
MaxBilled == 2
\* Most entries of the source directory.
MaxFiles == 1

\* --------------------------------------------------------------- constants

\* retry_attempts = 5
retry_attempts_short == 5 - 1
retry_attempts == 5
\* timeout = 1 # seconds
initial_timeout == 1
\* timeout = min(timeout * 5, 60): the factor and the ceiling
backoff_factor == 5
backoff_ceiling == 60
\* return 4: the indentation get_json_indentation falls back to
default_indent == 4

\* ----------------------------------------------------------------- strings

\* The characters str.strip(), str.split() and the regex class \s treat as
\* whitespace, among the characters the model uses.
Whitespace == {" ", "\t", "\n"}

\* The value of e, computed once and named: what an assignment to a local does.
Bind(e, Op(_)) == CHOOSE r \in {Op(x) : x \in {e}} : TRUE

Min(S) == CHOOSE x \in S : \A y \in S : x <= y
Max(S) == CHOOSE x \in S : \A y \in S : x >= y

\* bool(data.strip()) is False
IsBlank(s) == \A i \in 1..Len(s) : s[i] \in Whitespace

\* len(data.split()): the number of maximal runs of non-whitespace characters
WordCount(s) ==
    Cardinality({i \in 1..Len(s) :
        /\ s[i] \notin Whitespace
        /\ (i = 1 \/ s[i-1] \in Whitespace)})

\* str.replace(old, new): every non-overlapping occurrence, leftmost first
RECURSIVE Replace(_, _, _)
Replace(s, old, new) ==
    IF Len(old) = 0 \/ Len(s) < Len(old) THEN s
    ELSE IF SubSeq(s, 1, Len(old)) = old
         THEN new \o Replace(SubSeq(s, Len(old) + 1, Len(s)), old, new)
         ELSE <<Head(s)>> \o Replace(Tail(s), old, new)

DigitChars == <<"0", "1", "2", "3", "4", "5", "6", "7", "8", "9">>

\* str(i) of a non-negative integer
RECURSIVE Decimal(_)
Decimal(n) ==
    IF n < 10 THEN <<DigitChars[n + 1]>>
    ELSE Decimal(n \div 10) \o <<DigitChars[(n % 10) + 1]>>

\* f"@@{i}@@"
Token(i) == <<"@", "@">> \o Decimal(i) \o <<"@", "@">>

\* ------------------------------------------------------- placeholder codec

\* re.findall(r"\{\{.*?\}\}", text), scanning from position i: at a "{{" the
\* match runs to the first following "}}" unless a newline lies between
\* ("." matches no newline); the scan resumes after a match.
RECURSIVE FindPlaceholders(_, _)
FindPlaceholders(s, i) ==
    IF i + 3 > Len(s) THEN <<>>
    ELSE IF s[i] = "{" /\ s[i+1] = "{"
         THEN LET closes == {j \in (i+2)..(Len(s)-1) : s[j] = "}" /\ s[j+1] = "}"}
              IN  IF closes = {} THEN FindPlaceholders(s, i + 1)
                  ELSE LET j == Min(closes)
                       IN  IF \E m \in (i+2)..(j-1) : s[m] = "\n"
                           THEN FindPlaceholders(s, i + 1)
                           ELSE <<SubSeq(s, i, j + 1)>> \o FindPlaceholders(s, j + 2)
         ELSE FindPlaceholders(s, i + 1)

\* {ph: f"@@{i}@@" for i, ph in enumerate(placeholders)}: a dict keeps the
\* position of a key's first insertion and the value of its last.
TempTokens(placeholders) ==
    LET n == Len(placeholders)
        firsts == SelectSeq([i \in 1..n |-> i],
                    LAMBDA i : \A j \in 1..(i-1) : placeholders[j] # placeholders[i])
    IN  [m \in 1..Len(firsts) |->
            [ph |-> placeholders[firsts[m]],
             token |-> Token(Max({j \in 1..n : placeholders[j] = placeholders[firsts[m]]}) - 1)]]

\* for ph, token in temp_tokens.items(): text = text.replace(ph, token)
RECURSIVE ReplaceEach(_, _, _)
ReplaceEach(s, temp_tokens, m) ==
    IF m > Len(temp_tokens) THEN s
    ELSE Bind(Replace(s, temp_tokens[m].ph, temp_tokens[m].token),
              LAMBDA replaced : ReplaceEach(replaced, temp_tokens, m + 1))

\* for ph, token in temp_tokens.items(): text = text.replace(token, ph)
RECURSIVE RestoreEach(_, _, _)
RestoreEach(s, temp_tokens, m) ==
    IF m > Len(temp_tokens) THEN s
    ELSE Bind(Replace(s, temp_tokens[m].token, temp_tokens[m].ph),
              LAMBDA replaced : RestoreEach(replaced, temp_tokens, m + 1))

\* replace_placeholders(text) -> (text, temp_tokens)
replace_placeholders(s) ==
    Bind(s, LAMBDA str :
        Bind(FindPlaceholders(str, 1), LAMBDA placeholders :
            Bind(TempTokens(placeholders), LAMBDA temp_tokens :
                [text |-> ReplaceEach(str, temp_tokens, 1), tokens |-> temp_tokens])))

\* restore_placeholders(text, temp_tokens)
restore_placeholders(s, temp_tokens) ==
    Bind(s, LAMBDA str :
        Bind(temp_tokens, LAMBDA items : RestoreEach(str, items, 1)))

\* ------------------------------------------------------------- JSON values

Str(s) == [t |-> "str", k |-> <<>>, v |-> <<>>, s |-> s]
Other == [t |-> "other", k |-> <<>>, v |-> <<>>, s |-> <<>>]
List(children) == [t |-> "list", k |-> <<>>, v |-> children, s |-> <<>>]
Dict(keys, children) == [t |-> "dict", k |-> keys, v |-> children, s |-> <<>>]

IsContainer(node) == node.t \in {"dict", "list"}

\* isinstance(data, str) and data.strip()
IsTranslatableLax(node) == node.t = "str" /\ Len(node.s) > 0
IsTranslatable(node) == node.t = "str" /\ ~IsBlank(node.s)

\* The nodes translate_dict reaches that are neither dict nor list, in the
\* order the dict and list comprehensions visit them.
RECURSIVE Leaves(_)
RECURSIVE LeavesOfAll(_, _)
LeavesOfAll(children, i) ==
    IF i > Len(children) THEN <<>>
    ELSE Leaves(children[i]) \o LeavesOfAll(children, i + 1)
Leaves(node) == IF IsContainer(node) THEN LeavesOfAll(node.v, 1) ELSE <<node>>

RECURSIVE NodeCount(_)
RECURSIVE NodeCountOfAll(_, _)
NodeCountOfAll(children, i) ==
    IF i > Len(children) THEN 0
    ELSE NodeCount(children[i]) + NodeCountOfAll(children, i + 1)
NodeCount(node) == 1 + NodeCountOfAll(node.v, 1)

\* {key: self.translate_dict(value, ...) for key, value in data.items()} and
\* [self.translate_dict(item, ...) for item in data]: the value translate_dict
\* returns for node, given what the calls on its leaves returned (res, in
\* visiting order).  Keys, their order and the number of items are the input's.
RECURSIVE Rebuild(_, _)
Rebuild(node, res) ==
    IF IsContainer(node)
    THEN [node EXCEPT !.v =
            [i \in 1..Len(node.v) |->
                LET before == Len(LeavesOfAll(SubSeq(node.v, 1, i - 1), 1))
                IN  Rebuild(node.v[i],
                            SubSeq(res, before + 1, before + Len(Leaves(node.v[i]))))]]
    ELSE res[1]

\* phrase_count of count_words_and_phrases_in_dict(data)
RECURSIVE PhraseCount(_)
RECURSIVE PhraseCountOfAll(_, _)
PhraseCountOfAll(children, i) ==
    IF i > Len(children) THEN 0
    ELSE PhraseCount(children[i]) + PhraseCountOfAll(children, i + 1)
PhraseCount(node) ==
    IF IsContainer(node) THEN PhraseCountOfAll(node.v, 1)
    ELSE IF node.t = "str" /\ ~IsBlank(node.s) THEN 1 ELSE 0

\* word_count of count_words_and_phrases_in_dict(data)
RECURSIVE WordTotal(_)
RECURSIVE WordTotalOfAll(_, _)
WordTotalOfAll(children, i) ==
    IF i > Len(children) THEN 0
    ELSE WordTotal(children[i]) + WordTotalOfAll(children, i + 1)
WordTotal(node) ==
    IF IsContainer(node) THEN WordTotalOfAll(node.v, 1)
    ELSE IF node.t = "str" /\ ~IsBlank(node.s) THEN WordCount(node.s) ELSE 0

\* ------------------------------------------------------------ input values

\* The strings at the leaves: a phrase with a placeholder, a blank string and
\* the empty string.
PhraseText == <<"a", " ", "{", "{", "n", "}", "}">>
LeafTexts == {PhraseText, <<" ">>, <<>>}
Atoms == {Str(s) : s \in LeafTexts} \cup {Other}

Keys == {"a", "b"}
\* The key sequences of a dict with n entries: the keys of a dict are distinct.
KeySeqs(n) == {ks \in [1..n -> Keys] : \A i, j \in 1..n : ks[i] = ks[j] => i = j}

\* Every JSON value of at most n nodes, and every sequence of children of at
\* most m nodes in all.
RECURSIVE ValuesUpTo(_)
RECURSIVE ChildrenUpTo(_)
ChildrenUpTo(m) ==
    {<<>>} \cup UNION {{<<c>> \o rest : rest \in ChildrenUpTo(m - NodeCount(c))} :
                        c \in ValuesUpTo(m)}
ValuesUpTo(n) ==
    IF n <= 0 THEN {}
    ELSE Atoms
         \cup {List(cs) : cs \in ChildrenUpTo(n - 1)}
         \cup UNION {{Dict(ks, cs) : ks \in KeySeqs(Len(cs))} : cs \in ChildrenUpTo(n - 1)}

JsonValues == ValuesUpTo(MaxNodes)

\* What the remote translate_text can answer for a text: result.text is the
\* text itself or a changed text that keeps the tokens, result.billed_characters
\* any count up to MaxBilled.
RemoteTexts(s) == {s, <<"T">> \o s}
RemoteResults(s) == [text : RemoteTexts(s), billed_characters : 1..MaxBilled]

\* ------------------------------------------------------------------- state

VARIABLES
    pc,                 \* where the program is
    \* JSONTranslatorDeepL and the call of translate_dict in progress
    simulation,         \* self.simulation
    total_char_count,   \* self.total_char_count
    data,               \* the value translate_dict was called with
    results,            \* what the calls on the leaves visited so far returned
    attempt,            \* attempt, of the leaf being translated
    timeout,            \* timeout, of the leaf being translated
    translated_data,    \* what translate_dict returned
    \* what the program did to its surroundings
    remote_calls,       \* how many times translate_text was called
    succeeded,          \* the calls of translate_text that returned: leaf, result
    sleeps,             \* the time.sleep durations of the leaf attempted last
    outcome,            \* per leaf visited: how its call ended
    \* translate_json_directory
    listing,            \* os.listdir(source_directory): per entry, is it *.json
    file_index,         \* the position of the for loop in the listing
    file_count,
    total_word_count,
    total_phrase_count,
    language_supported, \* what is_supported_target_language answered
    target_directory,   \* whether os.makedirs created the target directory
    opened,             \* the entries whose input file was opened for json.load
    outputs,            \* per entry: the output file
    \* get_json_indentation
    source_file,        \* the file it was called on
    indent_value,       \* what the call did
    \* the placeholder codec on its own
    text,
    text_with_tokens,
    tokens,
    restored

engine_vars == <<simulation, total_char_count, data, results, attempt, timeout,
                 translated_data, remote_calls, succeeded, sleeps, outcome>>
run_vars == <<listing, file_index, file_count, total_word_count,
              total_phrase_count, language_supported, target_directory, opened,
              outputs>>
indent_vars == <<source_file, indent_value>>
codec_vars == <<text, text_with_tokens, tokens, restored>>
vars == <<pc, engine_vars, run_vars, indent_vars, codec_vars>>

NoFile == [readable |-> FALSE, content |-> <<>>]
NoIndent == [called |-> FALSE, raised |-> "", value |-> 0]

\* JSONTranslatorDeepL.__init__ and the locals of a translate_dict call
EngineIdle ==
    /\ total_char_count = 0
    /\ data = Other
    /\ results = <<>>
    /\ attempt = 0
    /\ timeout = initial_timeout
    /\ translated_data = Other
    /\ remote_calls = 0
    /\ succeeded = <<>>
    /\ sleeps = <<>>
    /\ outcome = <<>>

RunIdle ==
    /\ listing = <<>>
    /\ file_index = 0
    /\ file_count = 0
    /\ total_word_count = 0
    /\ total_phrase_count = 0
    /\ language_supported = "unasked"
    /\ target_directory = FALSE
    /\ opened = <<>>
    /\ outputs = <<>>

IndentIdle == source_file = NoFile /\ indent_value = NoIndent

CodecIdle ==
    /\ text = <<>>
    /\ text_with_tokens = <<>>
    /\ tokens = <<>>
    /\ restored = <<>>

\* ----------------------------------------------------------- translate_dict

\* The leaf the walk is at.
Pending == pc = "translate" /\ Len(results) < Len(Leaves(data))
Leaf == Leaves(data)[Len(results) + 1]

\* timeout = min(timeout * 5, 60)
NextTimeoutUncapped(t) == t * backoff_factor
NextTimeout(t) == Min({t * backoff_factor, backoff_ceiling})

\* if attempt < retry_attempts - 1
MayRetry(a) == a < retry_attempts - 1

\* self.total_char_count += char_count
AddBilledOnce(total, char_count) == total + 1
AddBilled(total, char_count) == total + char_count

\* return self.restore_placeholders(translated_text, tokens)
TranslatedLeaf(translated_text, temp_tokens) ==
    Str(restore_placeholders(translated_text, temp_tokens))

\* The simulation branch: translated_text = text_with_tokens is only shown,
\* and the call falls through to the final return data.
SimulatedLeafProtected(d, protected) == Str(protected)
SimulatedLeaf(d, protected) == d

\* return data, after the last attempt failed
ExhaustedLeafProtected(d, protected) == Str(protected)
ExhaustedLeaf(d, protected) == d

\* The call on a leaf returned r.
LeafReturns(r, how) ==
    /\ results' = Append(results, r)
    /\ outcome' = Append(outcome, how)
    /\ attempt' = 0
    /\ timeout' = initial_timeout

\* A node that is not a dict, a list or a non-blank str: return data.
PassThrough ==
    /\ Pending
    /\ \E leaf \in {Leaf} :
        /\ ~IsTranslatable(leaf)
        /\ LeafReturns(leaf, "passed")
    /\ UNCHANGED <<pc, simulation, total_char_count, data, translated_data,
                   remote_calls, succeeded, sleeps>>
    /\ UNCHANGED <<run_vars, indent_vars, codec_vars>>

\* A non-blank str with self.simulation set.
SimulateLeaf ==
    /\ Pending
    /\ simulation
    /\ \E leaf \in {Leaf} :
        /\ IsTranslatable(leaf)
        /\ \E protected \in {replace_placeholders(leaf.s)} :
            LeafReturns(SimulatedLeaf(leaf, protected.text), "simulated")
    /\ UNCHANGED <<pc, simulation, total_char_count, data, translated_data,
                   remote_calls, succeeded, sleeps>>
    /\ UNCHANGED <<run_vars, indent_vars, codec_vars>>

\* One pass of the retry loop in which translate_text returns.
TranslateSucceeds ==
    /\ Pending
    /\ ~simulation
    /\ attempt < retry_attempts
    /\ \E leaf \in {Leaf} :
        /\ IsTranslatable(leaf)
        /\ \E protected \in {replace_placeholders(leaf.s)} :
           \E result \in RemoteResults(protected.text) :
            /\ total_char_count' = AddBilled(total_char_count, result.billed_characters)
            /\ succeeded' = Append(succeeded,
                    [file |-> file_index, leaf |-> Len(results) + 1,
                     text |-> result.text,
                     billed_characters |-> result.billed_characters])
            /\ LeafReturns(TranslatedLeaf(result.text, protected.tokens), "translated")
    /\ remote_calls' = remote_calls + 1
    /\ sleeps' = IF attempt = 0 THEN <<>> ELSE sleeps
    /\ UNCHANGED <<pc, simulation, data, translated_data>>
    /\ UNCHANGED <<run_vars, indent_vars, codec_vars>>

\* One pass of the retry loop in which translate_text raises DeepLException.
TranslateFails ==
    /\ Pending
    /\ ~simulation
    /\ attempt < retry_attempts
    /\ remote_calls' = remote_calls + 1
    /\ \E leaf \in {Leaf}, before \in {IF attempt = 0 THEN <<>> ELSE sleeps} :
        /\ IsTranslatable(leaf)
        /\ IF MayRetry(attempt)
           THEN /\ sleeps' = Append(before, timeout)
                /\ IF attempt + 1 < retry_attempts
                   THEN /\ attempt' = attempt + 1
                        /\ timeout' = NextTimeout(timeout)
                        /\ UNCHANGED <<results, outcome>>
                      \* range(retry_attempts) is used up: the final return data
                   ELSE LeafReturns(leaf, "kept")
           ELSE /\ sleeps' = before
                /\ \E protected \in {replace_placeholders(leaf.s)} :
                    LeafReturns(ExhaustedLeaf(leaf, protected.text), "kept")
    /\ UNCHANGED <<pc, simulation, total_char_count, data, translated_data, succeeded>>
    /\ UNCHANGED <<run_vars, indent_vars, codec_vars>>

\* Every leaf was visited: the comprehensions return the rebuilt value.
ReturnTranslated ==
    /\ pc = "translate"
    /\ Len(results) = Len(Leaves(data))
    /\ translated_data' = Rebuild(data, results)
    /\ pc' = "returned"
    /\ UNCHANGED <<simulation, total_char_count, data, results, attempt, timeout,
                   remote_calls, succeeded, sleeps, outcome>>
    /\ UNCHANGED <<run_vars, indent_vars, codec_vars>>

\* translate_dict on any JSON value, by a translator just constructed.
Init ==
    /\ pc = "translate"
    /\ simulation \in BOOLEAN
    /\ total_char_count = 0
    /\ data \in JsonValues
    /\ results = <<>>
    /\ attempt = 0
    /\ timeout = initial_timeout
    /\ translated_data = Other
    /\ remote_calls = 0
    /\ succeeded = <<>>
    /\ sleeps = <<>>
    /\ outcome = <<>>
    /\ RunIdle
    /\ IndentIdle
    /\ CodecIdle

Next ==
    \/ PassThrough
    \/ SimulateLeaf
    \/ TranslateSucceeds
    \/ TranslateFails
    \/ ReturnTranslated

Spec == Init /\ [][Next]_vars

\* The walk is one thread of control that nothing suspends: a step that can
\* be taken is taken.
FairSpec == Spec /\ WF_vars(Next)

\* ----------------------------------------------------- get_json_indentation

\* f.readlines(): the lines of the file, each with its line break
RECURSIVE ReadLines(_)
ReadLines(content) ==
    IF content = <<>> THEN <<>>
    ELSE LET breaks == {i \in 1..Len(content) : content[i] = "\n"}
         IN  IF breaks = {} THEN <<content>>
             ELSE <<SubSeq(content, 1, Min(breaks))>>
                  \o ReadLines(SubSeq(content, Min(breaks) + 1, Len(content)))

\* len(match.group(1)) of re.match(r"^(\s+)", line), 0 when there is no match
LeadingWhitespace(line) ==
    Max({n \in 0..Len(line) : \A i \in 1..n : line[i] \in Whitespace})

\* get_json_indentation(file_path): a file that cannot be read gives 4;
\* min(set(indent_counts)) raises ValueError when no line matched.
get_json_indentation(file) ==
    IF ~file.readable
    THEN [called |-> TRUE, raised |-> "", value |-> default_indent]
    ELSE LET lines == ReadLines(file.content)
             indent_counts == {LeadingWhitespace(lines[i]) : i \in 1..Len(lines)} \ {0}
         IN  IF indent_counts = {}
             THEN [called |-> TRUE, raised |-> "ValueError", value |-> 0]
             ELSE [called |-> TRUE, raised |-> "", value |-> Min(indent_counts)]

\* Raw files: "x" stands for any character that is not whitespace.
FileAlphabet == {" ", "\n", "x"}
FileContents == UNION {[1..n -> FileAlphabet] : n \in 0..MaxFileLen}
Files == {NoFile} \cup {[readable |-> TRUE, content |-> c] : c \in FileContents}

GetJsonIndentation ==
    /\ pc = "indent"
    /\ indent_value' = get_json_indentation(source_file)
    /\ pc' = "indent_done"
    /\ UNCHANGED <<source_file, engine_vars, run_vars, codec_vars>>

\* get_json_indentation on any file.
InitIndent ==
    /\ pc = "indent"
    /\ source_file \in Files
    /\ indent_value = NoIndent
    /\ simulation = FALSE
    /\ EngineIdle
    /\ RunIdle
    /\ CodecIdle

NextIndent == GetJsonIndentation

SpecIndent == InitIndent /\ [][NextIndent]_vars

\* ------------------------------------------- the placeholder codec on its own

CodecAlphabet == {"{", "}", "@", "0", "a"}
Texts == UNION {[1..n -> CodecAlphabet] : n \in 0..MaxLen}

\* text_with_tokens, tokens = self.replace_placeholders(data)
ReplacePlaceholders ==
    /\ pc = "protect"
    /\ text_with_tokens' = replace_placeholders(text).text
    /\ tokens' = replace_placeholders(text).tokens
    /\ pc' = "restore"
    /\ UNCHANGED <<text, restored, engine_vars, run_vars, indent_vars>>

\* self.restore_placeholders(translated_text, tokens), the translation being
\* the identity
RestorePlaceholders ==
    /\ pc = "restore"
    /\ restored' = restore_placeholders(text_with_tokens, tokens)
    /\ pc' = "codec_done"
    /\ UNCHANGED <<text, text_with_tokens, tokens, engine_vars, run_vars, indent_vars>>

\* replace_placeholders then restore_placeholders on any text.
InitCodec ==
    /\ pc = "protect"
    /\ text \in Texts
    /\ text_with_tokens = <<>>
    /\ tokens = <<>>
    /\ restored = <<>>
    /\ simulation = FALSE
    /\ EngineIdle
    /\ RunIdle
    /\ IndentIdle

NextCodec ==
    \/ ReplacePlaceholders
    \/ RestorePlaceholders

SpecCodec == InitCodec /\ [][NextCodec]_vars

\* ------------------------------------------------- translate_json_directory

\* What json.load gives for the files of the directory: objects with one
\* phrase, with several leaves, with none, and a value that is no object.
OnePhrase == Dict(<<"a">>, <<Str(PhraseText)>>)
RunDocuments ==
    {OnePhrase,
     Dict(<<"b", "a">>, <<List(<<Str(<<" ">>), Other>>), Str(PhraseText)>>),
     Dict(<<>>, <<>>),
     List(<<Str(PhraseText)>>)}

\* The raw text of a source file as get_json_indentation finds it: unreadable
\* by then, written on one line, or indented by two spaces.
SourceFiles ==
    {NoFile,
     [readable |-> TRUE, content |-> <<"x">>],
     [readable |-> TRUE, content |-> <<"x", "\n", " ", " ", "x", "\n", "x">>]}

Absent == [state |-> "absent", data |-> Other, indent |-> 0]
Truncated == [state |-> "truncated", data |-> Other, indent |-> 0]
Written(d, indent) == [state |-> "written", data |-> d, indent |-> indent]

\* if not translator.is_supported_target_language(target_lang): ... return
AfterLanguageCheckIgnored(answer) ==
    IF answer = "error" THEN "exit" ELSE "check_directory"
AfterLanguageCheck(answer) ==
    IF answer = "error" THEN "exit"
    ELSE IF answer = "no" THEN "done"
    ELSE "check_directory"

\* get_api_key() and JSONTranslatorDeepL(get_api_key(), simulate)
GetApiKey ==
    /\ pc = "start"
    /\ \E found \in BOOLEAN :
        pc' = IF found THEN "check_language" ELSE "exit"
    /\ total_char_count' = 0
    /\ UNCHANGED <<simulation, data, results, attempt, timeout, translated_data,
                   remote_calls, succeeded, sleeps, outcome>>
    /\ UNCHANGED <<run_vars, indent_vars, codec_vars>>

\* is_supported_target_language: the remote list holds the code or not, or
\* get_target_languages raises and supported_target_languages exits.
CheckTargetLanguage ==
    /\ pc = "check_language"
    /\ \E answer \in {"yes", "no", "error"} :
        /\ language_supported' = answer
        /\ pc' = AfterLanguageCheck(answer)
    /\ UNCHANGED <<listing, file_index, file_count, total_word_count,
                   total_phrase_count, target_directory, opened, outputs>>
    /\ UNCHANGED <<engine_vars, indent_vars, codec_vars>>

\* os.path.exists, os.path.isdir, os.access(source_directory, os.R_OK)
CheckSourceDirectory ==
    /\ pc = "check_directory"
    /\ \E found \in {"ok", "missing", "not a directory", "not readable"} :
        pc' = IF found = "ok" THEN "make_target" ELSE "done"
    /\ UNCHANGED <<engine_vars, run_vars, indent_vars, codec_vars>>

\* os.makedirs(target_directory, exist_ok=True) and the counters of the run
MakeTargetDirectory ==
    /\ pc = "make_target"
    /\ \E made \in BOOLEAN :
        /\ target_directory' = made
        /\ pc' = IF made THEN "next_file" ELSE "done"
        /\ file_index' = IF made THEN 1 ELSE file_index
        /\ IF made
           THEN /\ total_word_count' = 0
                /\ total_phrase_count' = 0
                /\ file_count' = 0
           ELSE UNCHANGED <<total_word_count, total_phrase_count, file_count>>
    /\ UNCHANGED <<listing, language_supported, opened, outputs>>
    /\ UNCHANGED <<engine_vars, indent_vars, codec_vars>>

AtFile == pc = "next_file" /\ file_index <= Len(listing)

\* if filename.endswith(".json") is false
SkipEntry ==
    /\ AtFile
    /\ ~listing[file_index]
    /\ file_index' = file_index + 1
    /\ UNCHANGED <<pc, listing, file_count, total_word_count, total_phrase_count,
                   language_supported, target_directory, opened, outputs>>
    /\ UNCHANGED <<engine_vars, indent_vars, codec_vars>>

\* open(input_file) and json.load raise, or load a value that is no dict:
\* continue
RejectFile ==
    /\ AtFile
    /\ listing[file_index]
    /\ \E why \in {"OSError", "JSONDecodeError", "Exception", "not a dict"} :
        opened' = Append(opened, file_index)
    /\ file_index' = file_index + 1
    /\ UNCHANGED <<pc, listing, file_count, total_word_count, total_phrase_count,
                   language_supported, target_directory, outputs>>
    /\ UNCHANGED <<engine_vars, indent_vars, codec_vars>>

\* json.load gives a dict: file_count += 1 and translate_dict is called
LoadFile ==
    /\ AtFile
    /\ listing[file_index]
    /\ \E d \in RunDocuments :
        /\ d.t = "dict"
        /\ data' = d
    /\ opened' = Append(opened, file_index)
    /\ file_count' = file_count + 1
    /\ results' = <<>>
    /\ outcome' = <<>>
    /\ attempt' = 0
    /\ timeout' = initial_timeout
    /\ pc' = "translate"
    /\ UNCHANGED <<simulation, total_char_count, translated_data, remote_calls,
                   succeeded, sleeps>>
    /\ UNCHANGED <<listing, file_index, total_word_count, total_phrase_count,
                   language_supported, target_directory, outputs>>
    /\ UNCHANGED <<indent_vars, codec_vars>>

\* open(output_file, "w") raises OSError: continue
OutputNotOpened ==
    /\ pc = "returned"
    /\ file_index >= 1
    /\ file_index' = file_index + 1
    /\ pc' = "next_file"
    /\ UNCHANGED <<listing, file_count, total_word_count, total_phrase_count,
                   language_supported, target_directory, opened, outputs>>
    /\ UNCHANGED <<engine_vars, indent_vars, codec_vars>>

\* open(output_file, "w") truncates the file; get_json_indentation(input_file)
\* is evaluated for json.dump, and what it raises is no OSError, so nothing
\* catches it; json.dump writes, or raises OSError: continue; then the counts.
WriteFile ==
    /\ pc = "returned"
    /\ file_index >= 1
    /\ \E file \in SourceFiles, dumped \in BOOLEAN :
        LET indent == get_json_indentation(file)
        IN  /\ source_file' = file
            /\ indent_value' = indent
            /\ IF indent.raised # ""
               THEN /\ dumped
                    /\ outputs' = [outputs EXCEPT ![file_index] = Truncated]
                    /\ pc' = "crashed"
                    /\ UNCHANGED <<file_index, total_word_count, total_phrase_count>>
               ELSE /\ pc' = "next_file"
                    /\ file_index' = file_index + 1
                    /\ IF dumped
                       THEN /\ outputs' = [outputs EXCEPT ![file_index] =
                                              Written(translated_data, indent.value)]
                            /\ total_word_count' =
                                  total_word_count + WordTotal(translated_data)
                            /\ total_phrase_count' =
                                  total_phrase_count + PhraseCount(translated_data)
                       ELSE /\ outputs' = [outputs EXCEPT ![file_index] = Truncated]
                            /\ UNCHANGED <<total_word_count, total_phrase_count>>
    /\ UNCHANGED <<listing, file_count, language_supported, target_directory, opened>>
    /\ UNCHANGED <<engine_vars, codec_vars>>

\* The listing is used up: the summary and the finishing time are printed.
Summary ==
    /\ pc = "next_file"
    /\ file_index > Len(listing)
    /\ pc' = "done"
    /\ UNCHANGED <<engine_vars, run_vars, indent_vars, codec_vars>>

\* translate_json_directory is called on a directory of at most MaxFiles
\* entries, each a *.json file or not.
InitRun ==
    /\ pc = "start"
    /\ simulation \in BOOLEAN
    /\ EngineIdle
    /\ listing \in UNION {[1..n -> BOOLEAN] : n \in 0..MaxFiles}
    /\ file_index = 0
    /\ file_count = 0
    /\ total_word_count = 0
    /\ total_phrase_count = 0
    /\ language_supported = "unasked"
    /\ target_directory = FALSE
    /\ opened = <<>>
    /\ outputs = [i \in 1..Len(listing) |-> Absent]
    /\ IndentIdle
    /\ CodecIdle

NextRun ==
    \/ GetApiKey
    \/ CheckTargetLanguage
    \/ CheckSourceDirectory
    \/ MakeTargetDirectory
    \/ SkipEntry
    \/ RejectFile
    \/ LoadFile
    \/ PassThrough
    \/ SimulateLeaf
    \/ TranslateSucceeds
    \/ TranslateFails
    \/ ReturnTranslated
    \/ OutputNotOpened
    \/ WriteFile
    \/ Summary

SpecRun == InitRun /\ [][NextRun]_vars

\* ------------------------------------------------------------------ claims

IsPrefix(p, q) == Len(p) <= Len(q) /\ SubSeq(q, 1, Len(p)) = p

RECURSIVE BilledSum(_, _)
BilledSum(calls, i) ==
    IF i > Len(calls) THEN 0
    ELSE calls[i].billed_characters + BilledSum(calls, i + 1)

TranslatableAt == {j \in 1..Len(Leaves(data)) : IsTranslatable(Leaves(data)[j])}

\* C1: with simulation off, when every call of translate_text failed on a
\* document with one translatable leaf, translate_dict has made exactly 5
\* remote attempts, returns the document with the leaf as it was given, and
\* total_char_count is still 0.
C1_RetryExhaustion ==
    (/\ pc = "returned"
     /\ ~simulation
     /\ Cardinality(TranslatableAt) = 1
     /\ succeeded = <<>>)
    => (/\ remote_calls = 5
        /\ translated_data = data
        /\ total_char_count = 0)

C1_Witness ==
    /\ pc = "returned"
    /\ ~simulation
    /\ Cardinality(TranslatableAt) = 1
    /\ succeeded = <<>>
    /\ outcome[Min(TranslatableAt)] = "kept"
    /\ Len(Leaves(data)) > 1

\* C2: the sleeps of the leaf attempted last are a prefix of 1, 5, 25, 60,
\* whichever leaf it is: one sleep after each failed attempt that is not the
\* last, all four once its five attempts failed, none above 60.
C2_BackoffSequence ==
    /\ IsPrefix(sleeps, <<1, 5, 25, 60>>)
    /\ timeout <= 60
    /\ (pc = "translate" /\ attempt > 0) => Len(sleeps) = attempt
    /\ (attempt = 0 /\ Len(outcome) > 0 /\ outcome[Len(outcome)] = "kept")
            => sleeps = <<1, 5, 25, 60>>

C2_Witness ==
    /\ Len(outcome) = 2
    /\ outcome[1] = "kept"
    /\ outcome[2] = "kept"
    /\ sleeps = <<1, 5, 25, 60>>

\* C3: restore_placeholders(replace_placeholders(text)) is text, for every
\* text.
C3_RoundTrip == pc = "codec_done" => restored = text

\* C4: with simulation on, translate_dict calls translate_text never, leaves
\* total_char_count as it was, and returns every leaf, hence the value, as
\* it was given.
C4_SimulationIdentity ==
    simulation =>
        /\ remote_calls = 0
        /\ total_char_count = 0
        /\ \A j \in 1..Len(results) : results[j] = Leaves(data)[j]
        /\ pc = "returned" => translated_data = data

C4_Witness ==
    /\ simulation
    /\ pc = "returned"
    /\ \E j \in TranslatableAt :
        replace_placeholders(Leaves(data)[j].s).text # Leaves(data)[j].s
    /\ \E j \in 1..Len(outcome) : outcome[j] = "simulated"

\* The same keys in the same order, the same number of items, and the same
\* value wherever the input holds anything but a non-blank string.
RECURSIVE SameShape(_, _)
SameShape(given, returned) ==
    /\ returned.t = given.t
    /\ IF IsContainer(given)
       THEN /\ returned.k = given.k
            /\ Len(returned.v) = Len(given.v)
            /\ \A i \in 1..Len(given.v) : SameShape(given.v[i], returned.v[i])
       ELSE (given.t = "other" \/ IsBlank(given.s)) => returned = given

\* C5: the value translate_dict returns has the keys, the key order and the
\* list lengths of the value it was given, and the same value wherever that
\* holds a non-string scalar or a blank string.
C5_StructuralIsomorphism == pc = "returned" => SameShape(data, translated_data)

C5_Witness ==
    /\ pc = "returned"
    /\ translated_data # data
    /\ data.t = "dict"
    /\ Len(data.k) = 2
    /\ \E j \in 1..Len(Leaves(data)) :
        Leaves(data)[j].t = "str" /\ Leaves(data)[j].s = <<" ">>

\* The call that succeeded belongs to a leaf whose call has returned.
Settled(call) ==
    \/ call.file < file_index
    \/ call.file = file_index /\ call.leaf <= Len(results)

C6_CounterIsSum ==
    /\ total_char_count = BilledSum(succeeded, 1)
    /\ \A i, j \in 1..Len(succeeded) :
        (succeeded[i].file = succeeded[j].file /\ succeeded[i].leaf = succeeded[j].leaf)
            => i = j
    /\ \A i \in 1..Len(succeeded) : Settled(succeeded[i])

C6_CounterStep ==
    /\ total_char_count' >= total_char_count
    /\ (remote_calls' = remote_calls + 1 /\ succeeded' = succeeded)
            => total_char_count' = total_char_count

\* C6: total_char_count is the sum of the billed characters of the calls of
\* translate_text that succeeded so far, 0 at first, never smaller after a
\* step, unchanged by a failed attempt; a leaf has at most one successful call
\* and none is attempted once its call has returned.
C6_BilledCounter == []C6_CounterIsSum /\ [][C6_CounterStep]_vars

C6_Witness ==
    /\ Len(succeeded) = 2
    /\ succeeded[1].billed_characters # succeeded[2].billed_characters
    /\ total_char_count = 3
    /\ remote_calls > 3

\* The smallest non-zero leading-whitespace width among the lines of a file,
\* 4 if there is none or the file cannot be read.
ExpectedIndent(file) ==
    LET lines == ReadLines(file.content)
        widths == {LeadingWhitespace(lines[i]) : i \in 1..Len(lines)} \ {0}
    IN  IF ~file.readable \/ widths = {} THEN 4 ELSE Min(widths)

\* C7: get_json_indentation always returns a value: the smallest non-zero
\* leading-whitespace width of the lines of the file, and 4 when no line has
\* leading whitespace or the file cannot be read.
C7_IndentationDetected ==
    indent_value.called =>
        /\ indent_value.raised = ""
        /\ indent_value.value = ExpectedIndent(source_file)

JsonEntries == {i \in 1..Len(listing) : listing[i]}

\* C8: a file that cannot be read, parsed, used or written is abandoned, every
\* later *.json file is still opened, and the run reaches its summary: it
\* never ends abnormally because of one file.
C8_FileIsolation ==
    /\ pc # "crashed"
    /\ (pc = "done" /\ target_directory) =>
            \A i \in JsonEntries : \E n \in 1..Len(opened) : opened[n] = i

\* What translate_dict has returned: every leaf visited, a leaf whose attempts
\* all failed as it was given, every translatable leaf attempted and, where a
\* call succeeded, the restored translation in its place.
C9_AtReturn ==
    pc = "returned" =>
        /\ Len(results) = Len(Leaves(data))
        /\ Len(outcome) = Len(results)
        /\ \A j \in 1..Len(results) :
            /\ outcome[j] = "kept" => results[j] = Leaves(data)[j]
            /\ (j \in TranslatableAt /\ ~simulation)
                    => outcome[j] \in {"translated", "kept"}
            /\ outcome[j] = "translated" =>
                    \E n \in 1..Len(succeeded) :
                        /\ succeeded[n].leaf = j
                        /\ results[j] = Str(restore_placeholders(succeeded[n].text,
                                replace_placeholders(Leaves(data)[j].s).tokens))

\* C9: translate_dict returns; a leaf whose 5 attempts failed is returned as
\* it was given, and every translatable leaf, also after such a leaf, was
\* attempted and, where a call succeeded, holds the restored translation.
C9_LeafLocalFailure == <>(pc = "returned") /\ []C9_AtReturn

C9_Witness ==
    /\ pc = "returned"
    /\ \E i, j \in 1..Len(outcome) :
        /\ i < j
        /\ outcome[i] = "kept"
        /\ outcome[j] = "translated"
        /\ results[j] # Leaves(data)[j]

\* C10: once is_supported_target_language has answered no, the run is over,
\* and the target directory was not created, no source file was opened, no
\* leaf was visited, translate_text was not called and no output file exists.
C10_UnsupportedLanguage ==
    language_supported = "no" =>
        /\ pc = "done"
        /\ ~target_directory
        /\ opened = <<>>
        /\ file_index = 0
        /\ results = <<>>
        /\ remote_calls = 0
        /\ \A i \in 1..Len(outputs) : outputs[i] = Absent

C10_Witness ==
    /\ language_supported = "no"
    /\ pc = "done"
    /\ Len(listing) = MaxFiles
    /\ \A i \in 1..Len(listing) : listing[i]

====
